---------------------------- MODULE Spec2Model ----------------------------
(***************************************************************************)
(* Model of turf_scraper.py: the persistence mapper (the upsert helpers   *)
(* and save_to_db), the per-date loop of scrape_date that drives it, the   *)
(* table classifier of scrape_course and its runner/result row parsing.    *)
(*                                                                         *)
(* The specifications of the module:                                      *)
(*   Spec          scrape_date's loop persisting race payloads             *)
(*   SpecCheval    upsert_cheval called directly with arbitrary arguments  *)
(*   SpecClassify  the table classification loop of scrape_course          *)
(*   SpecScrape    the runners/results row parsing of scrape_course        *)
(*   SpecRange     scrape_range over dates, scrape_date over their races   *)
(*   FairRange     SpecRange with every await returning                    *)
(***************************************************************************)
EXTENDS Integers, Sequences, FiniteSets, TLC

VARIABLES
    store,        \* the relational store: the five tables
    store0,       \* the store as the run found it (never changes)
    prevStore,    \* the store before the last loop iteration
    raceIdx,      \* number of iterations of scrape_date's loop done
    count,        \* scrape_date's counter of "saved" races
    lastData,     \* what scrape_course returned in the last iteration
    lastOutcome,  \* how the last iteration ended
    prevData,     \* lastData of the iteration before
    prevOutcome,  \* lastOutcome of the iteration before
    lastDirty,    \* the last transaction had written when it raised
    pc,           \* scrape_date's loop: "loop" while no exception left it
    calls,        \* SpecCheval: direct calls of upsert_cheval made
    all_tables,       \* SpecClassify: the tables of the race page, in order
    partants_table,   \* index in all_tables of the runners table, 0: None
    resultats_table,  \* index in all_tables of the results table, 0: None
    pcC,              \* SpecClassify: "page", then "classified"
    tableP,         \* SpecScrape: the table taken as runners table
    tableR,         \* SpecScrape: the table taken as results table
    body_distance,  \* SpecScrape: the distance the page text gave
    distance,       \* SpecScrape: the race distance
    partants_dict,  \* SpecScrape: the runner dicts, in insertion order
    partants_list,  \* SpecScrape: the runners scrape_course returns
    pcS,            \* SpecScrape: "tables", "parsed", "merged", "returned"
    date_debut,   \* SpecRange: scrape_range's first datetime
    date_fin,     \* SpecRange: scrape_range's last datetime
    current,      \* SpecRange: the datetime of the date being scraped
    jour,         \* SpecRange: scrape_range's counter i
    nb_courses,   \* SpecRange: len(course_infos) of the date
    attempted,    \* SpecRange: the dates scrape_date was called for
    outcomes,     \* SpecRange: how each race of the date ended, in order
    events,       \* SpecRange: the latest page fetches and pauses
    conns,        \* SpecRange: the connections opened for the date
    n_saved,      \* SpecRange: the number scrape_date returned
    pcR           \* SpecRange: "while", "races", "done"

varsDate == <<store, store0, prevStore, raceIdx, count,
              lastData, lastOutcome, prevData, prevOutcome, lastDirty, pc>>

varsClassify == <<all_tables, partants_table, resultats_table, pcC>>

varsScrape == <<tableP, tableR, body_distance, distance, partants_dict,
                partants_list, pcS>>

varsRange == <<date_debut, date_fin, current, jour, nb_courses, attempted,
               outcomes, events, conns, n_saved, pcR>>

vars == <<varsDate, calls, varsClassify, varsScrape, varsRange>>

-----------------------------------------------------------------------------
(* Values.  SQL NULL / Python None for text and numbers is NULL; every     *)
(* scalar a payload carries is kept as text, the store never computes on   *)
(* it.  A foreign key that is None is NoId; identifiers count from 1.      *)

NULL == "NULL"

NoId == 0

\* Number of races scrape_date's loop visits (len(course_infos)).
MaxCourses == 2

\* Number of direct calls of upsert_cheval (SpecCheval).
MaxCalls == 2

\* dict.get(key, default)
Get(d, key, default) == IF key \in DOMAIN d THEN d[key] ELSE default

\* Python's `x or y` on text: None and "" are falsy.
OrElse(x, y) == IF x = NULL \/ x = "" THEN y ELSE x

\* str.strip() on the texts the payloads carry.
strip(s) ==
    CASE s = " "        -> ""
      [] s = " Martin " -> "Martin"
      [] OTHER          -> s

\* SQL COALESCE(a, b)
COALESCE(a, b) == IF a # NULL THEN a ELSE b

-----------------------------------------------------------------------------
(* The store.  chevaux, acteurs and courses carry a serial identifier: a   *)
(* row's identifier is its position, rows are never deleted.               *)

EmptyStore ==
    [hippodromes |-> {}, chevaux |-> <<>>, acteurs |-> <<>>,
     courses |-> <<>>, partants |-> {}]

\* INSERT INTO hippodromes ... ON CONFLICT (nom) DO NOTHING
upsert_hippodrome(db, nom) ==
    IF \E h \in db.hippodromes : h.nom = nom
    THEN db
    ELSE [db EXCEPT !.hippodromes = @ \cup {[nom |-> nom, ville |-> nom]}]

UpsertChevalLosesValue(row, sexe, race, pere, mere) ==
    [row EXCEPT !.sexe = sexe, !.race = race, !.pere = pere, !.mere = mere]

\* The ON CONFLICT (nom) DO UPDATE branch of upsert_cheval, on one row.
cheval_on_conflict(row, sexe, race, pere, mere) ==
    [row EXCEPT !.sexe = COALESCE(sexe, row.sexe),
                !.race = COALESCE(race, row.race),
                !.pere = COALESCE(pere, row.pere),
                !.mere = COALESCE(mere, row.mere)]

\* INSERT INTO chevaux ... ON CONFLICT (nom) DO UPDATE SET ...
upsert_cheval(db, nom, sexe, race, pere, mere) ==
    IF \E i \in DOMAIN db.chevaux : db.chevaux[i].nom = nom
    THEN LET i == CHOOSE j \in DOMAIN db.chevaux : db.chevaux[j].nom = nom
         IN [db EXCEPT !.chevaux[i] =
                 cheval_on_conflict(@, sexe, race, pere, mere)]
    ELSE [db EXCEPT !.chevaux = Append(@,
             [nom |-> nom, sexe |-> sexe, race |-> race,
              pere |-> pere, mere |-> mere])]

\* RETURNING id_cheval (or the SELECT that follows)
id_cheval(db, nom) ==
    CHOOSE i \in DOMAIN db.chevaux : db.chevaux[i].nom = nom

UpsertActeurAlwaysInserts(db, nom, role) ==
    [db EXCEPT !.acteurs = Append(@, [nom |-> nom, role |-> role])]

\* INSERT INTO acteurs ... ON CONFLICT (nom, role) DO NOTHING
upsert_acteur(db, nom, role) ==
    IF \E i \in DOMAIN db.acteurs :
          db.acteurs[i].nom = nom /\ db.acteurs[i].role = role
    THEN db
    ELSE [db EXCEPT !.acteurs = Append(@, [nom |-> nom, role |-> role])]

\* RETURNING id_acteur (or the SELECT that follows)
id_acteur(db, nom, role) ==
    CHOOSE i \in DOMAIN db.acteurs :
        db.acteurs[i].nom = nom /\ db.acteurs[i].role = role

CourseRow(d) ==
    [nom_prix |-> d.nom_prix, date_course |-> d.date_course,
     hippodrome |-> d.hippodrome, discipline |-> d.discipline,
     distance |-> d.distance, prix_total |-> d.prix_total,
     etat_terrain |-> d.etat_terrain, meteo |-> d.meteo,
     nb_partants |-> d.nb_partants]

InsertCourseOverwrites(db, d) ==
    IF \E i \in DOMAIN db.courses :
          db.courses[i].nom_prix = d.nom_prix
          /\ db.courses[i].date_course = d.date_course
    THEN LET i == CHOOSE j \in DOMAIN db.courses :
                      db.courses[j].nom_prix = d.nom_prix
                      /\ db.courses[j].date_course = d.date_course
         IN [db EXCEPT !.courses[i] = CourseRow(d)]
    ELSE [db EXCEPT !.courses = Append(@, CourseRow(d))]

\* INSERT INTO courses ... ON CONFLICT (nom_prix, date_course) DO NOTHING
insert_course(db, d) ==
    IF \E i \in DOMAIN db.courses :
          db.courses[i].nom_prix = d.nom_prix
          /\ db.courses[i].date_course = d.date_course
    THEN db
    ELSE [db EXCEPT !.courses = Append(@, CourseRow(d))]

\* RETURNING id_course (or the SELECT that follows)
id_course(db, d) ==
    CHOOSE i \in DOMAIN db.courses :
        db.courses[i].nom_prix = d.nom_prix
        /\ db.courses[i].date_course = d.date_course

\* The VALUES tuple of insert_partant.
PartantRow(d) ==
    [course_id          |-> d.course_id,
     cheval_id          |-> d.cheval_id,
     jockey_id          |-> Get(d, "jockey_id", NoId),
     entraineur_id      |-> Get(d, "entraineur_id", NoId),
     numero_pmu         |-> Get(d, "numero_pmu", NoId),
     age_cheval         |-> Get(d, "age", NULL),
     poids_porte        |-> Get(d, "poids", NULL),
     recul_distance     |-> Get(d, "recul", "0"),
     place_dans_corde   |-> Get(d, "place_corde", NULL),
     ferrure            |-> Get(d, "ferrure", NULL),
     oeilleres          |-> Get(d, "oeilleres", NULL),
     musique_precedente |-> Get(d, "musique", NULL),
     cote_matin         |-> Get(d, "cote_matin", NULL),
     cote_direct        |-> Get(d, "cote_direct", NULL),
     est_favori_presse  |-> Get(d, "est_favori", FALSE),
     place_arrivee      |-> Get(d, "place_arrivee", NULL),
     chrono_individuel  |-> Get(d, "chrono", NULL),
     gain_course        |-> Get(d, "gain", NULL)]

PartantOnConflictOverwrites(old, new) == new

PartantOnConflictNullWins(old, new) ==
    [old EXCEPT !.place_arrivee     = new.place_arrivee,
                !.chrono_individuel = new.chrono_individuel,
                !.cote_direct       = new.cote_direct,
                !.gain_course       = new.gain_course]

\* The ON CONFLICT (course_id, numero_pmu) DO UPDATE branch of insert_partant.
partant_on_conflict(old, new) ==
    [old EXCEPT
       !.place_arrivee     = COALESCE(new.place_arrivee, old.place_arrivee),
       !.chrono_individuel = COALESCE(new.chrono_individuel, old.chrono_individuel),
       !.cote_direct       = COALESCE(new.cote_direct, old.cote_direct),
       !.gain_course       = COALESCE(new.gain_course, old.gain_course)]

\* INSERT INTO partants ... ON CONFLICT (course_id, numero_pmu) DO UPDATE ...
insert_partant(db, d) ==
    LET new == PartantRow(d)
        hit == {r \in db.partants : r.course_id = new.course_id
                                    /\ r.numero_pmu = new.numero_pmu}
    IN IF hit # {}
       THEN LET old == CHOOSE r \in hit : TRUE
            IN [db EXCEPT !.partants =
                    (@ \ {old}) \cup {partant_on_conflict(old, new)}]
       ELSE [db EXCEPT !.partants = @ \cup {new}]

-----------------------------------------------------------------------------
(* save_to_db: one transaction per race.  failAt names the store operation *)
(* of the transaction that raises (0: none does); operations are counted   *)
(* in the order save_to_db issues them.                                    *)

\* One cur.execute inside the transaction: it raises, or it takes effect.
Step(tx, failAt, newdb) ==
    IF tx.failed THEN tx
    ELSE IF tx.n + 1 = failAt THEN [tx EXCEPT !.failed = TRUE]
    ELSE [db |-> newdb, n |-> tx.n + 1, failed |-> FALSE]

\* The body of `for p in course_data["partants"]`.
SavePartant(tx, failAt, course_id, p) ==
    LET nom == strip(Get(p, "nom_cheval", ""))
    IN IF tx.failed \/ nom = "" THEN tx
       ELSE
       LET t1 == Step(tx, failAt,
                      upsert_cheval(tx.db, nom, Get(p, "sexe", NULL),
                                    NULL, NULL, NULL))
           driver_nom == strip(OrElse(Get(p, "driver", NULL), ""))
           role == Get(p, "role_driver", "driver")
           t2 == IF driver_nom # ""
                 THEN Step(t1, failAt, upsert_acteur(t1.db, driver_nom, role))
                 ELSE t1
           entraineur_nom == strip(OrElse(Get(p, "entraineur", NULL), ""))
           t3 == IF entraineur_nom # ""
                 THEN Step(t2, failAt,
                           upsert_acteur(t2.db, entraineur_nom, "entraineur"))
                 ELSE t2
       IN Step(t3, failAt,
               insert_partant(t3.db,
                 [course_id     |-> course_id,
                  cheval_id     |-> id_cheval(t3.db, nom),
                  jockey_id     |-> IF driver_nom # ""
                                    THEN id_acteur(t3.db, driver_nom, role)
                                    ELSE NoId,
                  entraineur_id |-> IF entraineur_nom # ""
                                    THEN id_acteur(t3.db, entraineur_nom,
                                                   "entraineur")
                                    ELSE NoId,
                  numero_pmu    |-> Get(p, "numero_pmu", NoId),
                  age           |-> Get(p, "age", NULL),
                  poids         |-> Get(p, "poids", NULL),
                  recul         |-> Get(p, "recul", "0"),
                  place_corde   |-> Get(p, "place_corde", NULL),
                  ferrure       |-> Get(p, "ferrure", NULL),
                  oeilleres     |-> Get(p, "oeilleres", NULL),
                  musique       |-> Get(p, "musique", NULL),
                  cote_matin    |-> Get(p, "cote_matin", NULL),
                  cote_direct   |-> Get(p, "cote_direct", NULL),
                  est_favori    |-> Get(p, "est_favori", FALSE),
                  place_arrivee |-> Get(p, "place_arrivee", NULL),
                  chrono        |-> Get(p, "chrono", NULL),
                  gain          |-> Get(p, "gain", NULL)]))

RECURSIVE SavePartants(_, _, _, _)
SavePartants(tx, failAt, course_id, ps) ==
    IF ps = <<>> \/ tx.failed THEN tx
    ELSE SavePartants(SavePartant(tx, failAt, course_id, Head(ps)),
                      failAt, course_id, Tail(ps))

\* The `with conn: with conn.cursor() as cur:` block of save_to_db.
Transaction(db, course_data, failAt) ==
    LET t0 == [db |-> db, n |-> 0, failed |-> FALSE]
        t1 == Step(t0, failAt, upsert_hippodrome(t0.db, course_data.hippodrome))
        t2 == Step(t1, failAt, insert_course(t1.db, course_data))
    IN IF t2.failed THEN t2
       ELSE SavePartants(t2, failAt, id_course(t2.db, course_data),
                         course_data.partants)

RollbackKeepsWrites(db, tx) == tx.db

\* `with conn` leaving on an exception, and conn.rollback() in the handler.
Rollback(db, tx) == db

\* `with conn` leaving normally: the transaction is committed.
Commit(db, tx) == tx.db

\* The store save_to_db leaves.
save_to_db(db, course_data, failAt) ==
    LET tx == Transaction(db, course_data, failAt)
    IN IF tx.failed THEN Rollback(db, tx) ELSE Commit(db, tx)

\* What save_to_db logs.
save_log(db, course_data, failAt) ==
    IF Transaction(db, course_data, failAt).failed
    THEN "ERREUR BDD" ELSE "OK BDD"

-----------------------------------------------------------------------------
(* Text.  The text of a page cell is a sequence of characters; the three   *)
(* characters below stand for the degree sign, the no-break space and an   *)
(* icon of the site's private-use font.                                    *)

DEG == "<deg>"
NBSP == "<nbsp>"
PUA == "<pua>"
NL == "<nl>"

UpperCase == <<"A","B","C","D","E","F","G","H","I","J","K","L","M",
               "N","O","P","Q","R","S","T","U","V","W","X","Y","Z">>
LowerCase == <<"a","b","c","d","e","f","g","h","i","j","k","l","m",
               "n","o","p","q","r","s","t","u","v","w","x","y","z">>

\* str.lower()
lower(t) ==
    [i \in DOMAIN t |->
        IF \E k \in DOMAIN UpperCase : UpperCase[k] = t[i]
        THEN LowerCase[CHOOSE k \in DOMAIN UpperCase : UpperCase[k] = t[i]]
        ELSE t[i]]

\* \s of a str pattern, the characters str.strip() strips
IsSpace(c) == c \in {" ", NL, NBSP}

\* `needle in t`
Contains(t, needle) ==
    \E i \in 1 .. (Len(t) - Len(needle) + 1) :
        SubSeq(t, i, i + Len(needle) - 1) = needle

\* str.strip()
Strip(t) ==
    LET keep == { i \in DOMAIN t : ~IsSpace(t[i]) }
    IN IF keep = {} THEN <<>>
       ELSE SubSeq(t, CHOOSE i \in keep : \A j \in keep : i <= j,
                      CHOOSE i \in keep : \A j \in keep : i >= j)

\* re.sub(r"[\s\xa0\n]+", " ", t)
RECURSIVE SquashSpaces(_)
SquashSpaces(t) ==
    IF t = <<>> THEN <<>>
    ELSE IF IsSpace(Head(t))
         THEN IF Len(t) > 1 /\ IsSpace(t[2])
              THEN SquashSpaces(Tail(t))
              ELSE <<" ">> \o SquashSpaces(Tail(t))
         ELSE <<Head(t)>> \o SquashSpaces(Tail(t))

\* " ".join(texts)
RECURSIVE JoinSpace(_)
JoinSpace(texts) ==
    IF texts = <<>> THEN <<>>
    ELSE IF Len(texts) = 1 THEN texts[1]
    ELSE texts[1] \o <<" ">> \o JoinSpace(Tail(texts))

-----------------------------------------------------------------------------
(* The table classifier of scrape_course.  A table is its rows; a row is   *)
(* its cells' texts and whether they are th or td cells.  `kind` is what   *)
(* the table is on the site; the classifier does not read it.              *)

\* The keywords of the classifier.
KwDriver == <<"d","r","i","v","e","r">>
KwJockey == <<"j","o","c","k","e","y">>
KwCheval == <<"c","h","e","v","a","l">>
KwNumero == <<"n",DEG>>
KwN      == <<"n"," ">>
KwChrono == <<"c","h","r","o","n","o">>
KwRg     == <<"r","g">>
KwRang   == <<"r","a","n","g">>

\* header_cells of one row: strip().lower(), then the whitespace squashed
HeaderCells(r) ==
    [i \in DOMAIN r.cells |-> SquashSpaces(lower(Strip(r.cells[i])))]

\* header_text: the th and td cells of the first two rows, joined
header_text(table) ==
    LET rows == SubSeq(table.rows, 1, IF Len(table.rows) < 2
                                      THEN Len(table.rows) ELSE 2)
        cells == IF rows = <<>> THEN <<>>
                 ELSE IF Len(rows) = 1 THEN HeaderCells(rows[1])
                 ELSE HeaderCells(rows[1]) \o HeaderCells(rows[2])
    IN JoinSpace(cells)

is_partants(table) ==
    LET h == header_text(table)
    IN /\ (Contains(h, KwDriver) \/ Contains(h, KwJockey))
       /\ (Contains(h, KwCheval) \/ Contains(h, KwNumero) \/ Contains(h, KwN))

is_resultats(table) ==
    LET h == header_text(table)
    IN /\ Contains(h, KwChrono)
       /\ (Contains(h, KwRg) \/ Contains(h, KwRang))

\* `for table in all_tables`: the pair (partants_table, resultats_table)
\* after the first n tables; 0 is None, table i is all_tables[i-1].
RECURSIVE ClassifyLoop(_, _)
ClassifyLoop(tables, n) ==
    IF n = 0 THEN [partants |-> 0, resultats |-> 0]
    ELSE LET c == ClassifyLoop(tables, n - 1)
         IN IF is_partants(tables[n]) /\ c.partants = 0
            THEN [c EXCEPT !.partants = n]
            ELSE IF is_resultats(tables[n]) /\ c.resultats = 0
                 THEN [c EXCEPT !.resultats = n]
                 ELSE c

\* The fallback: no runners table found and more than one table on the
\* page: all_tables[1], the second table.
Fallback(tables, partants) ==
    IF partants = 0 /\ Len(tables) > 1 THEN 2 ELSE partants

\* the calendar widget that opens the page
CalendarTable ==
    [kind |-> "other", rows |-> <<
        [tag |-> "th", cells |-> <<
           <<"L","u">>, <<"M","a">>, <<"M","e">>>>],
        [tag |-> "td", cells |-> <<
           <<"1">>, <<"2">>, <<"3">>>>]>>]

\* the runners table of a harness race
TrotTable ==
    [kind |-> "runners", rows |-> <<
        [tag |-> "th", cells |-> <<
           <<"N",DEG>>, <<"C","h","e","v","a","l">>, <<"S","A">>,
           <<"D","i","s","t",".">>, <<"D","r","i","v","e","r">>,
           <<"E","n","t","r","a","i","n","e","u","r">>,
           <<"M","u","s","i","q","u","e">>, <<"G","a","i","n","s">>>>],
        [tag |-> "td", cells |-> <<
           <<"1">>, <<"B","o","l","d"," ","E","a","g","l","e">>,
           <<"H","7">>, <<"2","7","0","0">>,
           <<"J","."," ","D","u","p","o","n","t">>,
           <<"T","."," ","M","a","r","t","i","n">>, <<"8","a","6","a">>,
           <<"1","5","1"," ","1","8","0">>>>]>>]

\* the runners table of a flat or jump race
GalopTable ==
    [kind |-> "runners", rows |-> <<
        [tag |-> "th", cells |-> <<
           <<"N",DEG>>, <<"C","h","e","v","a","l">>, <<"S","A">>,
           <<"D","i","s","t",".">>, <<"P","o","i","d","s">>,
           <<"J","o","c","k","e","y">>,
           <<"E","n","t","r","a","i","n","e","u","r">>,
           <<"M","u","s","i","q","u","e">>, <<"G","a","i","n","s">>>>],
        [tag |-> "td", cells |-> <<
           <<"1">>, <<"R","e","a","d","y"," ","C","a","s","h">>,
           <<"M","5">>, <<"2","4","0","0">>, <<"5","6",",","5">>,
           <<"A","."," ","M","a","r","t","i","n">>,
           <<"T","."," ","D","u","p","o","n","t">>, <<"1","p","3","p">>,
           <<"9"," ","0","0","0">>>>]>>]

\* the results table as the site lays it out
ResultTable ==
    [kind |-> "results", rows |-> <<
        [tag |-> "th", cells |-> <<
           <<"R","g",".">>, <<"N",DEG>>, <<"C","h","e","v","a","u","x">>,
           <<"S","A">>, <<"D","i","s","t",".">>,
           <<"D","r","i","v","e","r","s">>,
           <<"E","n","t","r","a","i","n","e","u","r","s">>,
           <<"C","h","r","o","n","o","s">>, <<"C","o","t","e","s">>>>],
        [tag |-> "td", cells |-> <<
           <<"1",".">>, <<"1">>,
           <<"B","o","l","d"," ","E","a","g","l","e">>, <<"H","7">>,
           <<"2","7","0","0">>, <<"J","."," ","D","u","p","o","n","t">>,
           <<"T","."," ","M","a","r","t","i","n">>,
           <<"1","'","1","3","'","'","8">>, <<"3",",","2">>>>]>>]

\* a results table whose header names no driver, jockey or number column
PlainResultTable ==
    [kind |-> "results", rows |-> <<
        [tag |-> "th", cells |-> <<
           <<"R","g",".">>, <<"C","h","e","v","a","u","x">>,
           <<"C","h","r","o","n","o","s">>, <<"C","o","t","e","s">>>>],
        [tag |-> "td", cells |-> <<
           <<"1",".">>, <<"B","o","l","d"," ","E","a","g","l","e">>,
           <<"1","'","1","3","'","'","8">>, <<"3",",","2">>>>]>>]

\* a table of another kind
ReportTable ==
    [kind |-> "other", rows |-> <<
        [tag |-> "th", cells |-> <<
           <<"P","a","r","i">>, <<"R","a","p","p","o","r","t">>>>],
        [tag |-> "td", cells |-> <<
           <<"G","a","g","n","a","n","t">>, <<"3",",","2","0">>>>]>>]

TablePool == {CalendarTable, TrotTable, GalopTable, ResultTable,
              PlainResultTable, ReportTable}

\* Most tables on a page.
MaxTables == 3

Pages == UNION { [1 .. n -> TablePool] : n \in 0 .. MaxTables }

ClassifyIdle ==
    /\ all_tables = <<>>
    /\ partants_table = 0
    /\ resultats_table = 0
    /\ pcC = "idle"

-----------------------------------------------------------------------------
(* The row parsing of scrape_course: the runners table, the results table  *)
(* and the final filter.  The runner dicts carry the number, the names,    *)
(* the distance and handicap, the non-starter flag, the place and the      *)
(* time and the odds; sex, age, weight, form and earnings are not carried. *)

\* None where a number is expected (safe_int's None).
NoInt == -1

\* None where a table is expected.
NoTable == [kind |-> "none", rows |-> <<>>]

DigitChars == <<"0","1","2","3","4","5","6","7","8","9">>

IsDigit(c) == \E k \in DOMAIN DigitChars : DigitChars[k] = c

DigitValue(c) == (CHOOSE k \in DOMAIN DigitChars : DigitChars[k] = c) - 1

\* int() of a text of digits
RECURSIVE ToInt(_)
ToInt(t) ==
    IF t = <<>> THEN 0
    ELSE 10 * ToInt(SubSeq(t, 1, Len(t) - 1)) + DigitValue(t[Len(t)])

\* safe_int: the digits of the text as a number, None when there is none
safe_int(t) ==
    LET cleaned == SelectSeq(t, IsDigit)
    IN IF cleaned = <<>> THEN NoInt ELSE ToInt(cleaned)

\* re.match(r"^\d+$", t)
IsNumero(t) == t # <<>> /\ \A i \in DOMAIN t : IsDigit(t[i])

\* None where a float is expected (safe_float's None).
NoFloat == [m |-> 0, e |-> -1]

RECURSIVE Pow10(_)
Pow10(e) == IF e = 0 THEN 1 ELSE 10 * Pow10(e - 1)

\* The float m / 10^e of an integer part and a fractional part in digits,
\* the trailing zeros of the fraction dropped.
RECURSIVE Decimal(_, _, _)
Decimal(sign, ip, fp) ==
    IF fp # <<>> /\ fp[Len(fp)] = "0"
    THEN Decimal(sign, ip, SubSeq(fp, 1, Len(fp) - 1))
    ELSE [m |-> sign * ToInt(ip \o fp), e |-> Len(fp)]

\* float(text) for a text in plain decimal notation: an optional sign, then
\* digits with at most one point; None (the ValueError) for any other text.
\* The exponent, underscore, inf and nan notations are not among the cell
\* texts of this model.
float(t) ==
    LET signed == t # <<>> /\ t[1] \in {"+", "-"}
        body == IF signed THEN Tail(t) ELSE t
        points == { i \in DOMAIN body : body[i] = "." }
    IN IF \/ \A i \in DOMAIN body : ~IsDigit(body[i])
          \/ \E i \in DOMAIN body : ~IsDigit(body[i]) /\ body[i] # "."
          \/ Cardinality(points) > 1
       THEN NoFloat
       ELSE LET dot == IF points = {} THEN Len(body) + 1
                       ELSE CHOOSE i \in points : TRUE
            IN Decimal(IF signed /\ t[1] = "-" THEN -1 ELSE 1,
                       SubSeq(body, 1, dot - 1),
                       SubSeq(body, dot + 1, Len(body)))

\* safe_float: the comma made a point, the spaces removed, then float()
safe_float(t) ==
    float(Strip(SelectSeq([i \in DOMAIN t |-> IF t[i] = "," THEN "." ELSE t[i]],
                          LAMBDA c : c \notin {NBSP, " "})))

\* `v and v > 1.0`
ExceedsOne(v) == v # NoFloat /\ v.m # 0 /\ v.m > Pow10(v.e)

\* nettoyer_nom: the private-use icons removed, then strip()
nettoyer_nom(t) == Strip(SelectSeq(t, LAMBDA c : c # PUA))

\* nettoyer_nom(inner_text.replace("\n", " ").strip()) of every td of a row
td_texts(r) ==
    IF r.tag # "td" THEN <<>>
    ELSE [i \in DOMAIN r.cells |->
            nettoyer_nom(Strip([k \in DOMAIN r.cells[i] |->
                IF r.cells[i][k] = NL THEN " " ELSE r.cells[i][k]]))]

\* re.split(r"\s{2,}", t)[0].strip()
before_double_space(t) ==
    LET gaps == { i \in 1 .. (Len(t) - 1) : IsSpace(t[i]) /\ IsSpace(t[i + 1]) }
    IN IF gaps = {} THEN Strip(t)
       ELSE Strip(SubSeq(t, 1, (CHOOSE i \in gaps : \A j \in gaps : i <= j) - 1))

KwNonPart == <<"n","o","n","-","p","a","r","t">>
KwPoids == <<"p","o","i","d","s">>

\* "non-part" in text.lower()
has_non_part(t) == Contains(lower(t), KwNonPart)

\* parse_chrono: the stripped text when it holds digits ' digits '', else None
parse_chrono(t) ==
    LET v == Strip(t)
    IN IF \E a \in DOMAIN v : \E b \in DOMAIN v :
            /\ a + 2 <= b /\ b + 2 <= Len(v)
            /\ IsDigit(v[a]) /\ v[a + 1] = "'"
            /\ \A k \in (a + 2) .. b : IsDigit(v[k])
            /\ v[b + 1] = "'" /\ v[b + 2] = "'"
       THEN v ELSE <<>>

\* col_poids: the first row of the runners table names a weight column
col_poids(table) ==
    /\ table.rows # <<>>
    /\ Contains(JoinSpace([i \in DOMAIN table.rows[1].cells |->
                              lower(Strip(table.rows[1].cells[i]))]),
                KwPoids)

idx_driver(table) == IF col_poids(table) THEN 5 ELSE 4

idx_entraineur(table) == IF col_poids(table) THEN 6 ELSE 5

idx_cotes(table) == IF col_poids(table) THEN 9 ELSE 8

\* cotes_valides: the odds above 1.0 in the cells from idx_cotes on
cotes_valides(table, texts) ==
    SelectSeq([i \in 1 .. (IF Len(texts) > idx_cotes(table)
                           THEN Len(texts) - idx_cotes(table) ELSE 0) |->
                 safe_float(texts[idx_cotes(table) + i])],
              ExceedsOne)

\* texts[i] with Python's index i, or the default when the row is shorter
CellAt(texts, i, default) == IF Len(texts) > i THEN texts[i + 1] ELSE default

\* partants_dict[numero] = d
DictPut(dict, d) ==
    IF \E i \in DOMAIN dict : dict[i].numero_pmu = d.numero_pmu
    THEN [dict EXCEPT ![CHOOSE i \in DOMAIN dict :
                           dict[i].numero_pmu = d.numero_pmu] = d]
    ELSE Append(dict, d)

\* est_non_partant
est_non_partant(driver, nom_cheval) ==
    has_non_part(driver) \/ has_non_part(nom_cheval)

\* One row of the runners table: the dict it adds, if it adds one.
ParsePartantRow(dict, table, r) ==
    LET texts == td_texts(r)
    IN IF Len(texts) < 6 \/ ~IsNumero(texts[1]) THEN dict
       ELSE
       LET nom_cheval == before_double_space(texts[2])
           driver == CellAt(texts, idx_driver(table), <<>>)
           np == est_non_partant(driver, nom_cheval)
           cotes == cotes_valides(table, texts)
       IN DictPut(dict,
            [numero_pmu      |-> safe_int(texts[1]),
             nom_cheval      |-> nom_cheval,
             dist_cheval     |-> safe_int(CellAt(texts, 3, <<>>)),
             recul           |-> 0,
             driver          |-> IF np THEN <<>> ELSE driver,
             role_driver     |-> IF col_poids(table) THEN "jockey" ELSE "driver",
             entraineur      |-> CellAt(texts, idx_entraineur(table), <<>>),
             cote_matin      |-> IF Len(cotes) >= 2 THEN cotes[1] ELSE NoFloat,
             cote_direct     |-> IF Len(cotes) >= 1 THEN cotes[Len(cotes)]
                                 ELSE NoFloat,
             est_non_partant |-> np,
             place_arrivee   |-> NoInt,
             chrono          |-> <<>>])

RECURSIVE ParsePartantRows(_, _)
ParsePartantRows(table, n) ==
    IF n = 0 THEN <<>>
    ELSE ParsePartantRow(ParsePartantRows(table, n - 1), table, table.rows[n])

\* The listed distances that count (`if p["dist_cheval"]`).
Distances(dict) ==
    { dict[i].dist_cheval : i \in { j \in DOMAIN dict :
                                      dict[j].dist_cheval \notin {NoInt, 0} } }

Min(S) == CHOOSE x \in S : \A y \in S : x <= y

\* recul = dist_cheval - min(distances)
WithRecul(dict) ==
    IF Distances(dict) = {} THEN dict
    ELSE [i \in DOMAIN dict |->
            IF dict[i].dist_cheval \notin {NoInt, 0}
            THEN [dict[i] EXCEPT !.recul = dict[i].dist_cheval - Min(Distances(dict))]
            ELSE dict[i]]

\* distance, when the page text gave none
WithBase(dist, dict) ==
    IF Distances(dict) # {} /\ dist \in {NoInt, 0}
    THEN Min(Distances(dict)) ELSE dist

\* One row of the results table: overlaid on its runner, or a new runner.
ParseResultatRow(dict, r) ==
    LET texts == td_texts(r)
    IN IF Len(texts) < 7 THEN dict
       ELSE
       LET place == safe_int(Strip(SelectSeq(texts[1], LAMBDA c : c # ".")))
           numero == safe_int(texts[2])
           chrono == IF Len(texts) > 7 THEN parse_chrono(texts[8]) ELSE <<>>
           cote == IF Len(texts) > 8 THEN safe_float(texts[9]) ELSE NoFloat
       IN IF numero = NoInt THEN dict
          ELSE IF \E i \in DOMAIN dict : dict[i].numero_pmu = numero
          THEN LET i == CHOOSE j \in DOMAIN dict : dict[j].numero_pmu = numero
               IN [dict EXCEPT ![i].place_arrivee = place, ![i].chrono = chrono,
                               ![i].cote_direct = IF ExceedsOne(cote)
                                                  THEN cote ELSE @]
          ELSE Append(dict,
                 [numero_pmu      |-> numero,
                  nom_cheval      |-> texts[3],
                  dist_cheval     |-> safe_int(texts[5]),
                  recul           |-> 0,
                  driver          |-> texts[6],
                  entraineur      |-> texts[7],
                  cote_matin      |-> NoFloat,
                  cote_direct     |-> cote,
                  est_non_partant |-> FALSE,
                  place_arrivee   |-> place,
                  chrono          |-> chrono])

RECURSIVE ParseResultatRows(_, _, _)
ParseResultatRows(dict, table, n) ==
    IF n = 0 THEN dict
    ELSE ParseResultatRow(ParseResultatRows(dict, table, n - 1), table.rows[n])

\* partants_list: the non-starters and the nameless runners left out
FilterPartants(dict) ==
    SelectSeq(dict, LAMBDA p : ~p.est_non_partant /\ p.nom_cheval # <<>>)

\* header of the runners table of a harness race
TrotHeader ==
    [tag |-> "th", cells |-> <<
    <<"N",DEG>>,
    <<"C","h","e","v","a","l">>,
    <<"S","A">>,
    <<"D","i","s","t",".">>,
    <<"D","r","i","v","e","r">>,
    <<"E","n","t","r","a","i","n","e","u","r">>,
    <<"M","u","s","i","q","u","e">>,
    <<"G","a","i","n","s">>>>]

\* header of the runners table of a flat or jump race
GalopHeader ==
    [tag |-> "th", cells |-> <<
    <<"N",DEG>>,
    <<"C","h","e","v","a","l">>,
    <<"S","A">>,
    <<"D","i","s","t",".">>,
    <<"P","o","i","d","s">>,
    <<"J","o","c","k","e","y">>,
    <<"E","n","t","r","a","i","n","e","u","r">>,
    <<"M","u","s","i","q","u","e">>,
    <<"G","a","i","n","s">>>>]

\* header of the results table
ResultHeader ==
    [tag |-> "th", cells |-> <<
    <<"R","g",".">>,
    <<"N",DEG>>,
    <<"C","h","e","v","a","u","x">>,
    <<"S","A">>,
    <<"D","i","s","t",".">>,
    <<"D","r","i","v","e","r","s">>,
    <<"E","n","t","r","a","i","n","e","u","r","s">>,
    <<"C","h","r","o","n","o","s">>,
    <<"C","o","t","e","s">>>>]

\* a starter
TrotRow1 ==
    [tag |-> "td", cells |-> <<
    <<"1">>,
    <<"B","o","l","d"," ","E","a","g","l","e">>,
    <<"H","7">>,
    <<"2","7","0","0">>,
    <<"J","."," ","D","u","p","o","n","t">>,
    <<"T","."," ","M","a","r","t","i","n">>,
    <<"8","a","6","a">>,
    <<"1","5","1"," ","1","8","0">>,
    <<"4",",","5">>,
    <<"3",",","2">>>>]

\* a non-starter: the marker fills the driver cell
TrotRow2 ==
    [tag |-> "td", cells |-> <<
    <<"2">>,
    <<"R","e","a","d","y"," ","C","a","s","h">>,
    <<"M","5">>,
    <<"2","7","2","5">>,
    <<"N","O","N","-","P","A","R","T","A","N","T">>,
    <<"T","."," ","D","u","p","o","n","t">>,
    <<"1","a">>,
    <<"9"," ","0","0","0">>>>]

\* a non-starter: the marker follows the horse name after one space
TrotRow3 ==
    [tag |-> "td", cells |-> <<
    <<"3">>,
    <<"T","i","m","o","k","o"," ","N","o","n","-","p","a","r","t","a","n","t">>,
    <<"H","9">>,
    <<"2","7","0","0">>,
    <<>>,
    <<"T","."," ","M","a","r","t","i","n">>,
    <<"2","a">>,
    <<"5","0","0">>>>]

\* a non-starter: the marker follows the horse name on a new line
TrotRow4 ==
    [tag |-> "td", cells |-> <<
    <<"4">>,
    <<"L","o","v","e"," ","Y","o","u"," ",NL,"N","o","n","-","p","a","r","t","a","n","t">>,
    <<"M","6">>,
    <<"2","7","2","5">>,
    <<"J","."," ","M","a","r","t","i","n">>,
    <<"T","."," ","D","u","p","o","n","t">>,
    <<"3","a">>,
    <<"7","0","0">>>>]

\* a starter of a flat race
GalopRow5 ==
    [tag |-> "td", cells |-> <<
    <<"5">>,
    <<"T","r","e","v","e">>,
    <<"F","4">>,
    <<"2","4","0","0">>,
    <<"5","6",",","5">>,
    <<"A","."," ","M","a","r","t","i","n">>,
    <<"T","."," ","D","u","p","o","n","t">>,
    <<"1","p","3","p">>,
    <<"9"," ","0","0","0">>,
    <<"1",",","0">>,
    <<"9",",","2">>>>]

\* a non-starter of a flat race: the marker fills the jockey cell
GalopRow6 ==
    [tag |-> "td", cells |-> <<
    <<"6">>,
    <<"E","n","a","b","l","e">>,
    <<"F","5">>,
    <<"2","4","0","0">>,
    <<"5","7">>,
    <<"N","o","n","-","p","a","r","t","a","n","t","e">>,
    <<"T","."," ","M","a","r","t","i","n">>,
    <<"1","p">>,
    <<"8","0","0">>>>]

\* results rows, by starting number; number 4 is disqualified
ResultRow1 ==
    [tag |-> "td", cells |-> <<
    <<"1",".">>,
    <<"1">>,
    <<"B","o","l","d"," ","E","a","g","l","e">>,
    <<"H","7">>,
    <<"2","7","0","0">>,
    <<"J","."," ","D","u","p","o","n","t">>,
    <<"T","."," ","M","a","r","t","i","n">>,
    <<"1","'","1","3","'","'","8">>,
    <<"1",",","0">>>>]

ResultRow2 ==
    [tag |-> "td", cells |-> <<
    <<"2",".">>,
    <<"2">>,
    <<"R","e","a","d","y"," ","C","a","s","h">>,
    <<"M","5">>,
    <<"2","7","2","5">>,
    <<"J","."," ","M","a","r","t","i","n">>,
    <<"T","."," ","D","u","p","o","n","t">>,
    <<"1","'","1","4","'","'","2">>,
    <<"7",",","1">>>>]

ResultRow4 ==
    [tag |-> "td", cells |-> <<
    <<"D">>,
    <<"4">>,
    <<"L","o","v","e"," ","Y","o","u">>,
    <<"M","6">>,
    <<"2","7","2","5">>,
    <<"J","."," ","M","a","r","t","i","n">>,
    <<"T","."," ","D","u","p","o","n","t">>,
    <<>>,
    <<"1","2">>>>]

ResultRow6 ==
    [tag |-> "td", cells |-> <<
    <<"3",".">>,
    <<"6">>,
    <<"E","n","a","b","l","e">>,
    <<"F","5">>,
    <<"2","4","0","0">>,
    <<"A","."," ","D","u","p","o","n","t">>,
    <<"T","."," ","M","a","r","t","i","n">>,
    <<"1","'","1","5","'","'","0">>,
    <<"0",",","8">>>>]

TrotRows == {TrotRow1, TrotRow2, TrotRow3, TrotRow4}
GalopRows == {GalopRow5, GalopRow6}
ResultRows == {ResultRow1, ResultRow2, ResultRow4, ResultRow6}

\* Most data rows in a table.
MaxRows == 2

\* The sequences of up to MaxRows different rows of a pool.
RowLists(pool) ==
    UNION { { f \in [1 .. n -> pool] :
                \A i, j \in 1 .. n : f[i] = f[j] => i = j } : n \in 0 .. MaxRows }

RunnerTables ==
    { [kind |-> "runners", rows |-> <<TrotHeader>> \o l] : l \in RowLists(TrotRows) }
    \cup
    { [kind |-> "runners", rows |-> <<GalopHeader>> \o l] : l \in RowLists(GalopRows) }

ResultTables ==
    { [kind |-> "results", rows |-> <<ResultHeader>> \o l] : l \in RowLists(ResultRows) }

ScrapeIdle ==
    /\ tableP = NoTable
    /\ tableR = NoTable
    /\ body_distance = NoInt
    /\ distance = NoInt
    /\ partants_dict = <<>>
    /\ partants_list = <<>>
    /\ pcS = "idle"

-----------------------------------------------------------------------------
(* The race payloads scrape_course hands to save_to_db.  A runner dict is  *)
(* put together from who runs (horse and connections), its entry fields    *)
(* and its result fields.                                                  *)

WhoA == [nom_cheval |-> "Bold Eagle", sexe |-> "M", driver |-> "Dupont",
         role_driver |-> "driver", entraineur |-> " Martin "]
WhoB == [nom_cheval |-> "Ready Cash", sexe |-> "H", driver |-> "Martin",
         role_driver |-> "jockey", entraineur |-> "Dupont"]
\* the horse of WhoA with nothing else known
WhoBare == [nom_cheval |-> "Bold Eagle", sexe |-> NULL, driver |-> NULL,
            role_driver |-> "driver", entraineur |-> " "]
WhoNameless == [nom_cheval |-> "", sexe |-> "F", driver |-> "Dupont",
                role_driver |-> "driver", entraineur |-> "Martin"]

EntryA == [age |-> "7", poids |-> "58", recul |-> "0",
           musique |-> "8a6a(25)7a", cote_matin |-> "4.5"]
EntryB == [age |-> "5", poids |-> "56.5", recul |-> "25",
           musique |-> "1p3p", cote_matin |-> "9.2"]
EntryNone == [age |-> NULL, poids |-> NULL, recul |-> NULL,
              musique |-> NULL, cote_matin |-> NULL]

ResultA == [place_arrivee |-> "1", chrono |-> "1'13''8",
            cote_direct |-> "3.2", gain |-> "151180"]
ResultB == [place_arrivee |-> "2", chrono |-> "1'14''2",
            cote_direct |-> "7.1", gain |-> "9000"]
ResultNone == [place_arrivee |-> NULL, chrono |-> NULL,
               cote_direct |-> NULL, gain |-> NULL]

\* A runner parsed from the runners table: every key is present.
Partant(numero, who, entry, result) ==
    [numero_pmu |-> numero] @@ who @@ entry @@ result

\* A runner synthesized from a results row: no "poids", no "role_driver".
Synthesized(numero, result) ==
    [numero_pmu |-> numero, nom_cheval |-> "Ready Cash", sexe |-> "M",
     age |-> "5", recul |-> "0", driver |-> "Martin",
     entraineur |-> "Dupont", musique |-> NULL, cote_matin |-> NULL]
    @@ result

FullA1   == Partant(1, WhoA, EntryA, ResultA)
FullB1   == Partant(1, WhoB, EntryB, ResultB)
FullB2   == Partant(2, WhoB, EntryB, ResultB)
EntryA1  == Partant(1, WhoA, EntryA, ResultNone)
ResultA1 == Partant(1, WhoBare, EntryNone, ResultA)
Nameless3 == Partant(3, WhoNameless, EntryA, ResultA)

PartantsLists ==
    { <<FullA1>>, <<FullB1>>, <<EntryA1>>, <<ResultA1>>,
      <<FullA1, FullB2>>,
      <<Nameless3, Synthesized(1, ResultNone), FullB2>> }

MetaA == [hippodrome |-> "Vincennes", discipline |-> "Trot",
          distance |-> "2700", prix_total |-> "90000",
          etat_terrain |-> "Bon", meteo |-> NULL]
MetaB == [hippodrome |-> "Enghien", discipline |-> "Plat",
          distance |-> NULL, prix_total |-> NULL,
          etat_terrain |-> NULL, meteo |-> NULL]

\* (nom_prix, date_course) and the rest of the race record.
Headers ==
    { [nom_prix |-> "Prix De Grenade", date_course |-> "2026-02-15 13:50"] @@ MetaA,
      [nom_prix |-> "Prix De Grenade", date_course |-> "2026-02-15 13:50"] @@ MetaB,
      [nom_prix |-> "Prix De Grenade", date_course |-> "2026-02-16 00:00"] @@ MetaB }

\* What scrape_course returns when it returns a race.
CourseData(h, ps) ==
    h @@ [nb_partants |-> Len(ps), partants |-> ps]

Payloads == { CourseData(h, ps) : h \in Headers, ps \in PartantsLists }

\* scrape_course returned None, or no iteration has run yet.
NoData == [nom_prix |-> NULL]

\* The stores an earlier run can have left behind.
SeedPayloads ==
    { CourseData(h, ps) :
        h \in { x \in Headers : x.hippodrome = "Vincennes" },
        ps \in { <<FullA1>>, <<ResultA1>> } }

\* The transaction raised after a write of its own had taken effect.
Dirty(db, course_data, failAt) ==
    LET tx == Transaction(db, course_data, failAt)
    IN tx.failed /\ tx.db # db

\* The store operations save_to_db issues for one payload.
NumOps(db, course_data) == Transaction(db, course_data, 0).n

-----------------------------------------------------------------------------
(* The values of scrape_range.  A datetime is a number of half days: the   *)
(* day is its quotient by HalfDays, the remainder says whether the time of *)
(* day is midnight (0) or later (1).                                       *)

\* The half days of timedelta(days=1).
HalfDays == 2

\* strftime("%Y-%m-%d"): the day of a datetime
date_str(dt) == dt \div HalfDays

\* datetime.strptime(day, "%Y-%m-%d"): the day at midnight
Midnight(day) == day * HalfDays

\* datetime.now(): today, after midnight
Now(day) == day * HalfDays + 1

\* Most days between the first and the last day of a range.
MaxDays == 2

\* Most races in the programme of a date.
MaxRaces == 2

\* The (date_debut, date_fin) main() calls scrape_range with: --historique
\* gives now minus some days and now, --debut gives a midnight and either
\* the midnight of --fin (which can lie before --debut) or now.
Ranges ==
    { <<Now(MaxDays - n), Now(MaxDays)>> : n \in 1 .. MaxDays }
    \cup { <<Midnight(d), Midnight(f)>> : d \in 0 .. 1, f \in 0 .. MaxDays }
    \cup { <<Midnight(d), Now(f)>> : d \in 0 .. 1, f \in 1 .. MaxDays }

\* psycopg2.connect: a new connection, for the race that asked for it
get_conn(race) == [race |-> race, txs |-> <<>>, closed |-> FALSE]

\* `with conn:` the transaction the connection carried and how it ended
conn_tx(conn, tx) ==
    [conn EXCEPT !.txs = Append(@, IF tx.failed THEN "rollback" ELSE "commit")]

ConnLeftOpen(conn) == conn

\* `finally: conn.close()`
conn_close(conn) == [conn EXCEPT !.closed = TRUE]

\* The life of the connection of one save_to_db call.
save_conn(race, db, course_data, failAt) ==
    conn_close(conn_tx(get_conn(race), Transaction(db, course_data, failAt)))

\* The latest three fetches and pauses.
Latest(evs) ==
    IF Len(evs) <= 3 THEN evs ELSE SubSeq(evs, Len(evs) - 2, Len(evs))

RangeIdle ==
    /\ date_debut = 0
    /\ date_fin = 0
    /\ current = 0
    /\ jour = 0
    /\ nb_courses = 0
    /\ attempted = <<>>
    /\ outcomes = <<>>
    /\ events = <<>>
    /\ conns = <<>>
    /\ n_saved = NoInt
    /\ pcR = "idle"

-----------------------------------------------------------------------------
(* scrape_date: one action per way an iteration of                         *)
(* `for info in course_infos` can go.                                      *)

AfterIterationAborts(outcome) ==
    IF outcome \in {"Erreur", "Erreur connexion"} THEN "raised" ELSE "loop"

\* No exception leaves the try/except of the loop body: the loop goes on.
AfterIteration(outcome) == "loop"

Record(data, outcome, dirty) ==
    /\ prevStore' = store
    /\ prevData' = lastData
    /\ prevOutcome' = lastOutcome
    /\ lastData' = data
    /\ lastOutcome' = outcome
    /\ lastDirty' = dirty
    /\ raceIdx' = raceIdx + 1
    /\ pc' = AfterIteration(outcome)
    /\ UNCHANGED <<store0, calls, varsClassify, varsScrape, varsRange>>

\* scrape_course returns a race and save_to_db runs its transaction, which
\* commits (failAt = 0) or raises at operation failAt and is rolled back.
IterSave ==
    /\ pc = "loop" /\ raceIdx < MaxCourses
    /\ \E data \in Payloads :
       \E failAt \in 0 .. NumOps(store, data) :
         /\ store' = save_to_db(store, data, failAt)
         /\ count' = count + 1
         /\ Record(data, save_log(store, data, failAt),
                   Dirty(store, data, failAt))

\* scrape_course returns a race and get_conn() raises: save_to_db raises
\* before its try, the handler of scrape_date's loop logs it.
IterConnError ==
    /\ pc = "loop" /\ raceIdx < MaxCourses
    /\ \E data \in Payloads :
         /\ UNCHANGED <<store, count>>
         /\ Record(data, "Erreur", FALSE)

\* scrape_course returns None (a page timeout).
IterNoData ==
    /\ pc = "loop" /\ raceIdx < MaxCourses
    /\ UNCHANGED <<store, count>>
    /\ Record(NoData, "Timeout", FALSE)

\* scrape_course raises.
IterScrapeError ==
    /\ pc = "loop" /\ raceIdx < MaxCourses
    /\ UNCHANGED <<store, count>>
    /\ Record(NoData, "Erreur", FALSE)

Init ==
    /\ store \in {EmptyStore} \cup
                 { save_to_db(EmptyStore, d, 0) : d \in SeedPayloads }
    /\ store0 = store
    /\ prevStore = store
    /\ raceIdx = 0
    /\ count = 0
    /\ lastData = NoData
    /\ lastOutcome = "none"
    /\ prevData = NoData
    /\ prevOutcome = "none"
    /\ lastDirty = FALSE
    /\ pc = "loop"
    /\ calls = 0
    /\ ClassifyIdle
    /\ ScrapeIdle
    /\ RangeIdle

Next ==
    \/ IterSave
    \/ IterConnError
    \/ IterNoData
    \/ IterScrapeError

Spec == Init /\ [][Next]_vars

-----------------------------------------------------------------------------
(* SpecCheval: upsert_cheval called on its own, with every combination of  *)
(* absent and present sex, breed, sire and dam.                            *)

ChevalArgs ==
    { [nom |-> "Bold Eagle", sexe |-> x, race |-> r, pere |-> f, mere |-> m] :
        x \in {NULL, "M", "H"}, r \in {NULL, "Trotteur Francais", "AQPS"},
        f \in {NULL, "Ready Cash", "Love You"},
        m \in {NULL, "Reethi Rah Jet", "Birdie"} }
    \cup
    { [nom |-> "Ready Cash", sexe |-> x, race |-> NULL, pere |-> NULL,
       mere |-> NULL] : x \in {NULL, "M"} }

UpsertCheval ==
    /\ calls < MaxCalls
    /\ \E a \in ChevalArgs :
         /\ store' = upsert_cheval(store, a.nom, a.sexe, a.race, a.pere, a.mere)
         /\ prevStore' = store
         /\ lastData' = a
         /\ lastOutcome' = "upsert_cheval"
    /\ calls' = calls + 1
    /\ UNCHANGED <<store0, raceIdx, count, prevData, prevOutcome,
                   lastDirty, pc, varsClassify, varsScrape, varsRange>>

InitCheval ==
    /\ store = EmptyStore
    /\ store0 = store
    /\ prevStore = store
    /\ raceIdx = 0
    /\ count = 0
    /\ lastData = NoData
    /\ lastOutcome = "none"
    /\ prevData = NoData
    /\ prevOutcome = "none"
    /\ lastDirty = FALSE
    /\ pc = "idle"
    /\ calls = 0
    /\ ClassifyIdle
    /\ ScrapeIdle
    /\ RangeIdle

NextCheval == UpsertCheval

SpecCheval == InitCheval /\ [][NextCheval]_vars

-----------------------------------------------------------------------------
(* SpecClassify: the classification loop and the fallback of scrape_course *)
(* on every page of up to MaxTables tables.                                *)

ClassifyTables ==
    /\ pcC = "page"
    /\ LET c == ClassifyLoop(all_tables, Len(all_tables))
       IN /\ partants_table' = Fallback(all_tables, c.partants)
          /\ resultats_table' = c.resultats
    /\ pcC' = "classified"
    /\ UNCHANGED <<all_tables, varsDate, calls, varsScrape, varsRange>>

InitClassify ==
    /\ all_tables \in Pages
    /\ partants_table = 0
    /\ resultats_table = 0
    /\ pcC = "page"
    /\ store = EmptyStore
    /\ store0 = store
    /\ prevStore = store
    /\ raceIdx = 0
    /\ count = 0
    /\ lastData = NoData
    /\ lastOutcome = "none"
    /\ prevData = NoData
    /\ prevOutcome = "none"
    /\ lastDirty = FALSE
    /\ pc = "idle"
    /\ calls = 0
    /\ ScrapeIdle
    /\ RangeIdle

NextClassify == ClassifyTables

SpecClassify == InitClassify /\ [][NextClassify]_vars

-----------------------------------------------------------------------------
(* SpecScrape: scrape_course from the classified tables to the returned    *)
(* runner list, in its three passes.                                       *)

\* The runner dicts the rows of the runners table give.
RunnersTableDict(table) ==
    IF table = NoTable THEN <<>> ELSE ParsePartantRows(table, Len(table.rows))

\* `if partants_table:` the rows parsed, the handicaps computed.
ParsePartants ==
    /\ pcS = "tables"
    /\ partants_dict' = WithRecul(RunnersTableDict(tableP))
    /\ distance' = WithBase(distance, RunnersTableDict(tableP))
    /\ pcS' = "parsed"
    /\ UNCHANGED <<tableP, tableR, body_distance, partants_list, varsDate,
                   calls, varsClassify, varsRange>>

\* `if resultats_table:` the results merged into the runner dicts.
MergeResultats ==
    /\ pcS = "parsed"
    /\ partants_dict' = IF tableR = NoTable THEN partants_dict
                        ELSE ParseResultatRows(partants_dict, tableR,
                                               Len(tableR.rows))
    /\ pcS' = "merged"
    /\ UNCHANGED <<tableP, tableR, body_distance, distance, partants_list,
                   varsDate, calls, varsClassify, varsRange>>

\* The non-starters excluded, the race returned.
ReturnCourse ==
    /\ pcS = "merged"
    /\ partants_list' = FilterPartants(partants_dict)
    /\ pcS' = "returned"
    /\ UNCHANGED <<tableP, tableR, body_distance, distance, partants_dict,
                   varsDate, calls, varsClassify, varsRange>>

InitScrape ==
    /\ tableP \in {NoTable} \cup RunnerTables
    /\ tableR \in {NoTable} \cup ResultTables
    /\ body_distance \in {NoInt, 2100}
    /\ distance = body_distance
    /\ partants_dict = <<>>
    /\ partants_list = <<>>
    /\ pcS = "tables"
    /\ ClassifyIdle
    /\ RangeIdle
    /\ store = EmptyStore
    /\ store0 = store
    /\ prevStore = store
    /\ raceIdx = 0
    /\ count = 0
    /\ lastData = NoData
    /\ lastOutcome = "none"
    /\ prevData = NoData
    /\ prevOutcome = "none"
    /\ lastDirty = FALSE
    /\ pc = "idle"
    /\ calls = 0

NextScrape == ParsePartants \/ MergeResultats \/ ReturnCourse

SpecScrape == InitScrape /\ [][NextScrape]_vars

-----------------------------------------------------------------------------
(* SpecRange: scrape_range over a range of dates, scrape_date over the     *)
(* races of each date.                                                     *)

\* The races scrape_course returns in SpecRange.
RangePayloads ==
    { d \in Payloads : \/ d.hippodrome = "Vincennes" /\ d.partants = <<FullA1>>
                       \/ d.date_course = "2026-02-16 00:00"
                          /\ d.partants = <<FullB1>> }

\* The parts of the state the actions of SpecRange leave alone.
RangeFrame ==
    UNCHANGED <<store0, prevStore, lastData, lastOutcome, prevData,
                prevOutcome, lastDirty, calls, varsClassify, varsScrape,
                date_debut, date_fin>>

\* `while current <= date_fin`: scrape_date is called for the date, the
\* programme page is fetched; it lists the races or the fetch raises.
RangeDate ==
    /\ pcR = "while" /\ current <= date_fin
    /\ jour' = jour + 1
    /\ attempted' = Append(attempted, [date |-> date_str(current), failed |-> FALSE])
    /\ \E programme \in {"ok", "raised"} :
         /\ pc' = IF programme = "ok" THEN "loop" ELSE "raised"
         /\ nb_courses' \in IF programme = "ok" THEN 0 .. MaxRaces ELSE {0}
    /\ raceIdx' = 0
    /\ count' = 0
    /\ outcomes' = <<>>
    /\ conns' = <<>>
    /\ n_saved' = NoInt
    /\ events' = Latest(events \o <<"programme">>)
    /\ pcR' = "races"
    /\ UNCHANGED <<store, current>>
    /\ RangeFrame

\* The end of one iteration of `for info in course_infos`.
RaceDone(outcome, evs) ==
    /\ outcomes' = Append(outcomes, outcome)
    /\ raceIdx' = raceIdx + 1
    /\ pc' = AfterIteration(outcome)
    /\ events' = Latest(events \o evs)
    /\ pcR' = "races"
    /\ UNCHANGED <<current, jour, nb_courses, attempted, n_saved>>
    /\ RangeFrame

InRaces == pcR = "races" /\ pc = "loop" /\ raceIdx < nb_courses

\* scrape_course returns a race, save_to_db opens a connection, runs the
\* transaction (committed, or rolled back when it raises at failAt), closes
\* the connection; the race is counted, the loop pauses.
RaceSave ==
    /\ InRaces
    /\ \E data \in RangePayloads :
       \E failAt \in 0 .. NumOps(store, data) :
         /\ store' = save_to_db(store, data, failAt)
         /\ conns' = Append(conns, save_conn(raceIdx, store, data, failAt))
         /\ count' = count + 1
         /\ RaceDone(save_log(store, data, failAt), <<"course", "sleep2">>)

\* scrape_course returns a race, get_conn raises: nothing is counted and the
\* handler of the loop is reached before the pause.
RaceConnError ==
    /\ InRaces
    /\ UNCHANGED <<store, conns, count>>
    /\ RaceDone("Erreur connexion", <<"course">>)

\* scrape_course returns None (the page timed out): the loop pauses.
RaceNoData ==
    /\ InRaces
    /\ UNCHANGED <<store, conns, count>>
    /\ RaceDone("Timeout", <<"course", "sleep2">>)

\* scrape_course raises: the handler of the loop is reached before the pause.
RaceScrapeError ==
    /\ InRaces
    /\ UNCHANGED <<store, conns, count>>
    /\ RaceDone("Erreur", <<"course">>)

\* scrape_date returns count or raises; scrape_range logs either, steps to
\* the next day and pauses.
DateEnd ==
    /\ pcR = "races"
    /\ pc # "loop" \/ raceIdx = nb_courses
    /\ n_saved' = IF pc = "loop" THEN count ELSE NoInt
    /\ attempted' = [attempted EXCEPT ![Len(attempted)].failed =
                        pc # "loop" \/ \E k \in DOMAIN outcomes :
                                          outcomes[k] \notin {"OK BDD", "Timeout"}]
    /\ current' = current + HalfDays
    /\ events' = Latest(events \o <<"sleep5">>)
    /\ pcR' = "while"
    /\ UNCHANGED <<store, raceIdx, count, pc, jour, nb_courses, outcomes, conns>>
    /\ RangeFrame

\* `while current <= date_fin` is false: scrape_range returns.
RangeDone ==
    /\ pcR = "while" /\ current > date_fin
    /\ pcR' = "done"
    /\ UNCHANGED <<store, raceIdx, count, pc, current, jour, nb_courses,
                   attempted, outcomes, events, conns, n_saved>>
    /\ RangeFrame

InitRange ==
    /\ \E r \in Ranges : date_debut = r[1] /\ date_fin = r[2]
    /\ current = date_debut
    /\ jour = 0
    /\ nb_courses = 0
    /\ attempted = <<>>
    /\ outcomes = <<>>
    /\ events = <<>>
    /\ conns = <<>>
    /\ n_saved = NoInt
    /\ pcR = "while"
    /\ store = EmptyStore
    /\ store0 = store
    /\ prevStore = store
    /\ raceIdx = 0
    /\ count = 0
    /\ lastData = NoData
    /\ lastOutcome = "none"
    /\ prevData = NoData
    /\ prevOutcome = "none"
    /\ lastDirty = FALSE
    /\ pc = "idle"
    /\ calls = 0
    /\ ClassifyIdle
    /\ ScrapeIdle

NextRange ==
    \/ RangeDate
    \/ RaceSave
    \/ RaceConnError
    \/ RaceNoData
    \/ RaceScrapeError
    \/ DateEnd
    \/ RangeDone

SpecRange == InitRange /\ [][NextRange]_vars

\* Every await of the run returns: the run does not stay for ever before a
\* step it can take.  The four ways a race can go share the guard InRaces,
\* so fairness of one of them keeps the loop over the races going.
FairRange ==
    /\ SpecRange
    /\ WF_vars(RangeDate)
    /\ WF_vars(RaceNoData)
    /\ WF_vars(DateEnd)
    /\ WF_vars(RangeDone)

-----------------------------------------------------------------------------
(* Reading the store.                                                      *)

HasCourse(db, d) ==
    \E i \in DOMAIN db.courses :
        db.courses[i].nom_prix = d.nom_prix
        /\ db.courses[i].date_course = d.date_course

HasPartant(db, course_id, numero) ==
    \E r \in db.partants : r.course_id = course_id /\ r.numero_pmu = numero

PartantOf(db, course_id, numero) ==
    CHOOSE r \in db.partants :
        r.course_id = course_id /\ r.numero_pmu = numero

\* The runners of a payload save_to_db does not skip.
Named(d) ==
    { d.partants[i] : i \in { j \in DOMAIN d.partants :
                                strip(d.partants[j].nom_cheval) # "" } }

SameRace(d1, d2) ==
    d1.nom_prix = d2.nom_prix /\ d1.date_course = d2.date_course

Saved == lastOutcome = "OK BDD"

SavedTwice == lastOutcome = "OK BDD" /\ prevOutcome = "OK BDD"

\* The columns insert_partant's conflict branch may touch, and the others.
ResultColumns ==
    {"place_arrivee", "chrono_individuel", "cote_direct", "gain_course"}

FrameColumns == DOMAIN PartantRow([course_id |-> 1, cheval_id |-> 1])
                \ ResultColumns

-----------------------------------------------------------------------------
(* C1.  Merge convergence.                                                 *)

EntryOnly(p) ==
    /\ Get(p, "poids", NULL) # NULL /\ p.recul # NULL
    /\ p.musique # NULL /\ p.cote_matin # NULL
    /\ p.place_arrivee = NULL /\ p.chrono = NULL /\ p.cote_direct = NULL

ResultOnly(p) ==
    /\ Get(p, "poids", NULL) = NULL /\ p.recul = NULL
    /\ p.musique = NULL /\ p.cote_matin = NULL
    /\ p.place_arrivee # NULL /\ p.chrono # NULL /\ p.cote_direct # NULL

\* The last two iterations persisted, for one runner identity the store did
\* not hold, an entry-only payload and a result-only payload, in this order
\* (first, second).
TwoPartials(first(_), second(_)) ==
    /\ raceIdx = 2 /\ SavedTwice
    /\ SameRace(prevData, lastData)
    /\ Len(prevData.partants) = 1 /\ Len(lastData.partants) = 1
    /\ prevData.partants[1].numero_pmu = lastData.partants[1].numero_pmu
    /\ prevData.partants[1].nom_cheval = lastData.partants[1].nom_cheval
    /\ first(prevData.partants[1]) /\ second(lastData.partants[1])
    /\ ~HasCourse(store0, lastData)

Complete(row) ==
    /\ row.poids_porte # NULL /\ row.recul_distance # NULL
    /\ row.musique_precedente # NULL /\ row.cote_matin # NULL
    /\ row.place_arrivee # NULL /\ row.chrono_individuel # NULL
    /\ row.cote_direct # NULL

MergedRow ==
    PartantOf(store, id_course(store, lastData),
              lastData.partants[1].numero_pmu)

\* C1: an entry-only payload and a result-only payload of one runner
\* identity, persisted in either order, leave one runner row whose entry
\* fields and result fields are all non-null (so both orders agree).
C1_MergeConvergence ==
    (TwoPartials(EntryOnly, ResultOnly) \/ TwoPartials(ResultOnly, EntryOnly))
    => /\ Cardinality({ r \in store.partants :
                          r.course_id = id_course(store, lastData) }) = 1
       /\ Complete(MergedRow)

\* The order the code does merge: entry first, result second.
EntryThenResultMerges ==
    TwoPartials(EntryOnly, ResultOnly) => Complete(MergedRow)

-----------------------------------------------------------------------------
(* C2.  Idempotence of save_to_db.                                         *)

\* C2: a payload persisted twice in a row leaves the store as persisting it
\* once left it: the second call adds no row and changes no field.
C2_Idempotent ==
    (SavedTwice /\ lastData = prevData) => store = prevStore

\* A two-runner payload persisted twice; the first call did write.
C2_Witness ==
    /\ SavedTwice /\ lastData = prevData /\ raceIdx = 2
    /\ Len(lastData.partants) = 2
    /\ prevStore # store0 /\ store0 # EmptyStore

-----------------------------------------------------------------------------
(* C4.  Runner upsert conflict rule.                                       *)

\* The runner of the last payload that lands on stored row r.
Incoming(r) ==
    { p \in Named(lastData) :
        /\ HasCourse(store, lastData)
        /\ id_course(store, lastData) = r.course_id
        /\ p.numero_pmu = r.numero_pmu }

\* C4: a runner row that existed before a successful save keeps every
\* column but place, time, current odds and gain; each of those takes the
\* payload's value when that is non-null and keeps the stored one otherwise.
C4_PartantConflictRule ==
    Saved =>
    \A old \in prevStore.partants :
        /\ HasPartant(store, old.course_id, old.numero_pmu)
        /\ LET new == PartantOf(store, old.course_id, old.numero_pmu)
           IN /\ \A c \in FrameColumns : new[c] = old[c]
              /\ IF Incoming(old) = {}
                 THEN new = old
                 ELSE LET p == CHOOSE q \in Incoming(old) : TRUE
                      IN /\ new.place_arrivee =
                              (IF p.place_arrivee # NULL
                               THEN p.place_arrivee ELSE old.place_arrivee)
                         /\ new.chrono_individuel =
                              (IF p.chrono # NULL
                               THEN p.chrono ELSE old.chrono_individuel)
                         /\ new.cote_direct =
                              (IF p.cote_direct # NULL
                               THEN p.cote_direct ELSE old.cote_direct)
                         /\ new.gain_course =
                              (IF p.gain # NULL
                               THEN p.gain ELSE old.gain_course)

\* A stored runner met a payload naming another horse, other connections
\* and other entry fields, and its result columns changed.
C4_Witness ==
    /\ Saved
    /\ \E old \in prevStore.partants :
        /\ Incoming(old) # {}
        /\ LET p == CHOOSE q \in Incoming(old) : TRUE
           IN /\ p.cote_matin # old.cote_matin
              /\ p.musique # old.musique_precedente
              /\ Get(p, "poids", NULL) # old.poids_porte
              /\ id_cheval(store, strip(p.nom_cheval)) # old.cheval_id
              /\ p.place_arrivee # NULL
              /\ p.place_arrivee # old.place_arrivee
        /\ PartantOf(store, old.course_id, old.numero_pmu) # old

-----------------------------------------------------------------------------
(* C5.  Enrich-only lifecycle.                                             *)

\* The nullable columns of each table: text columns, and foreign keys.
ChevalColumns == {"sexe", "race", "pere", "mere"}

CourseColumns == {"hippodrome", "discipline", "distance", "prix_total",
                  "etat_terrain", "meteo"}

PartantTextColumns ==
    {"age_cheval", "poids_porte", "recul_distance", "place_dans_corde",
     "ferrure", "oeilleres", "musique_precedente", "cote_matin",
     "cote_direct", "place_arrivee", "chrono_individuel", "gain_course"}

PartantKeyColumns == {"jockey_id", "entraineur_id"}

\* Every column of `cols` that holds a value in `old` holds one in `new`.
NoValueLost(old, new, cols, null) ==
    \A c \in cols : old[c] # null => new[c] # null

\* Every row of `before` is a row of `after` with no value lost.
EnrichOnly(before, after) ==
    /\ \A h \in before.hippodromes :
         \E g \in after.hippodromes : g.nom = h.nom /\ g.ville = h.ville
    /\ Len(after.chevaux) >= Len(before.chevaux)
    /\ \A i \in DOMAIN before.chevaux :
         /\ after.chevaux[i].nom = before.chevaux[i].nom
         /\ NoValueLost(before.chevaux[i], after.chevaux[i],
                        ChevalColumns, NULL)
    /\ Len(after.acteurs) >= Len(before.acteurs)
    /\ \A i \in DOMAIN before.acteurs :
         after.acteurs[i] = before.acteurs[i]
    /\ Len(after.courses) >= Len(before.courses)
    /\ \A i \in DOMAIN before.courses :
         /\ SameRace(after.courses[i], before.courses[i])
         /\ NoValueLost(before.courses[i], after.courses[i],
                        CourseColumns, NULL)
    /\ \A r \in before.partants :
         /\ HasPartant(after, r.course_id, r.numero_pmu)
         /\ LET n == PartantOf(after, r.course_id, r.numero_pmu)
            IN /\ NoValueLost(r, n, PartantTextColumns, NULL)
               /\ NoValueLost(r, n, PartantKeyColumns, NoId)
               /\ n.cheval_id = r.cheval_id

\* C5: over any run of save_to_db calls no venue, horse, person, race or
\* runner row of the store is removed, and no stored value becomes null.
C5_EnrichOnly == EnrichOnly(prevStore, store) /\ EnrichOnly(store0, store)

\* A payload whose result fields are all null was persisted onto a stored
\* runner whose result fields all hold values.
C5_Witness ==
    /\ Saved
    /\ \E old \in prevStore.partants :
        /\ Incoming(old) # {}
        /\ LET p == CHOOSE q \in Incoming(old) : TRUE
           IN /\ p.place_arrivee = NULL /\ p.chrono = NULL
              /\ p.cote_direct = NULL /\ p.gain = NULL
        /\ old.place_arrivee # NULL /\ old.chrono_individuel # NULL
        /\ old.cote_direct # NULL /\ old.gain_course # NULL

-----------------------------------------------------------------------------
(* C6.  Race insert-if-absent.                                             *)

\* C6: the store holds at most one race row per (race name, race date); a
\* payload whose (name, date) is stored changes no race row, and its runners
\* are attached to the identifier of the stored row.
C6_CourseInsertIfAbsent ==
    /\ \A i, j \in DOMAIN store.courses :
         SameRace(store.courses[i], store.courses[j]) => i = j
    /\ (Saved /\ HasCourse(prevStore, lastData)) =>
         /\ store.courses = prevStore.courses
         /\ \A p \in Named(lastData) :
              HasPartant(store, id_course(prevStore, lastData), p.numero_pmu)

\* A stored race met a payload of the same (name, date) whose venue,
\* discipline and distance differ, carrying a runner the race did not hold.
C6_Witness ==
    /\ Saved /\ HasCourse(prevStore, lastData)
    /\ LET i == id_course(prevStore, lastData)
       IN /\ prevStore.courses[i].hippodrome # lastData.hippodrome
          /\ prevStore.courses[i].discipline # lastData.discipline
          /\ prevStore.courses[i].distance # lastData.distance
          /\ \E p \in Named(lastData) :
               /\ ~HasPartant(prevStore, i, p.numero_pmu)
               /\ HasPartant(store, i, p.numero_pmu)

-----------------------------------------------------------------------------
(* C7.  All-or-nothing persistence per race.                               *)

\* Every write of the last payload's transaction is in the store.
AllWritesVisible(db, d) ==
    /\ \E h \in db.hippodromes : h.nom = d.hippodrome
    /\ HasCourse(db, d)
    /\ \A p \in Named(d) :
         /\ \E i \in DOMAIN db.chevaux : db.chevaux[i].nom = strip(p.nom_cheval)
         /\ HasPartant(db, id_course(db, d), p.numero_pmu)

\* C7: when a store operation of a race's save_to_db fails, the store is
\* what it was before the call, the failure is logged for that race and the
\* loop of scrape_date goes on; when none fails, all the writes are there.
C7_AllOrNothing ==
    /\ lastOutcome = "ERREUR BDD" =>
         /\ store = prevStore
         /\ pc = "loop"
    /\ lastOutcome = "OK BDD" => AllWritesVisible(store, lastData)
    /\ lastDirty => lastOutcome = "ERREUR BDD"

\* A transaction raised after it had written and was rolled back, and the
\* next iteration persisted its race.
C7_Witness ==
    /\ prevOutcome = "ERREUR BDD" /\ lastOutcome = "OK BDD"
    /\ store # prevStore
    /\ Len(lastData.partants) = 2

\* A transaction raised after it had written.
C7_WitnessDirty ==
    /\ lastOutcome = "ERREUR BDD" /\ lastDirty /\ raceIdx = 2
    /\ Len(lastData.partants) = 2

-----------------------------------------------------------------------------
(* C3.  Horse upsert conflict rule (SpecCheval).                           *)

\* The last call met a stored horse of the same name.
ChevalConflict ==
    /\ lastOutcome = "upsert_cheval"
    /\ \E i \in DOMAIN prevStore.chevaux :
         prevStore.chevaux[i].nom = lastData.nom

StoredCheval == prevStore.chevaux[id_cheval(prevStore, lastData.nom)]

UpdatedCheval == store.chevaux[id_cheval(prevStore, lastData.nom)]

\* C3 as stated: on a conflict each of sex/breed/sire/dam changes only if
\* the stored value is null and the new one is not; a stored value is never
\* replaced by a different new value.
C3_FillsOnlyNulls ==
    ChevalConflict =>
    \A c \in ChevalColumns :
        UpdatedCheval[c] # StoredCheval[c]
        => (StoredCheval[c] = NULL /\ lastData[c] # NULL)

\* C3 as amended: on a conflict each of sex/breed/sire/dam takes the new
\* value when that is non-null, whatever is stored, and keeps the stored
\* value when the new one is null; no row is added and no other row changes.
C3_LastNonNullWins ==
    ChevalConflict =>
    /\ \A c \in ChevalColumns :
         UpdatedCheval[c] =
            (IF lastData[c] # NULL THEN lastData[c] ELSE StoredCheval[c])
    /\ UpdatedCheval.nom = StoredCheval.nom
    /\ Len(store.chevaux) = Len(prevStore.chevaux)
    /\ \A i \in DOMAIN prevStore.chevaux :
         prevStore.chevaux[i].nom # lastData.nom
         => store.chevaux[i] = prevStore.chevaux[i]

\* A stored sex and a stored sire were replaced by different new values
\* while a null new breed left the stored breed in place.
C3_Witness ==
    /\ ChevalConflict
    /\ StoredCheval.sexe = "M" /\ lastData.sexe = "H" /\ UpdatedCheval.sexe = "H"
    /\ StoredCheval.pere = "Ready Cash" /\ UpdatedCheval.pere = "Love You"
    /\ StoredCheval.race = "AQPS" /\ lastData.race = NULL
    /\ UpdatedCheval.race = "AQPS"

-----------------------------------------------------------------------------
(* C9, C10.  Table classification (SpecClassify).                          *)

TablesOfKind(k) == { i \in DOMAIN all_tables : all_tables[i].kind = k }

\* C9: on a page holding one runners table and one results table, in either
\* order, the classifier takes the runners table as partants_table and the
\* results table as resultats_table.
C9_OrderIndependent ==
    (/\ pcC = "classified"
     /\ Cardinality(TablesOfKind("runners")) = 1
     /\ Cardinality(TablesOfKind("results")) = 1)
    => /\ partants_table \in TablesOfKind("runners")
       /\ resultats_table \in TablesOfKind("results")

\* The order the classifier does handle: the runners table comes first.
RunnersFirstClassifies ==
    (/\ pcC = "classified"
     /\ Cardinality(TablesOfKind("runners")) = 1
     /\ Cardinality(TablesOfKind("results")) = 1
     /\ \A i \in TablesOfKind("runners"), j \in TablesOfKind("results") : i < j)
    => /\ partants_table \in TablesOfKind("runners")
       /\ resultats_table \in TablesOfKind("results")

\* C10: after classification and fallback the runners table and the results
\* table are never one table, and each is the first table of the page that
\* matches its kind (for the results table: the first one not taken as the
\* runners table).
C10_DistinctTables ==
    pcC = "classified" =>
    /\ (partants_table # 0 /\ resultats_table # 0)
         => partants_table # resultats_table
    /\ resultats_table # 0 =>
         /\ is_resultats(all_tables[resultats_table])
         /\ \A i \in 1 .. (resultats_table - 1) :
              is_resultats(all_tables[i]) => i = partants_table
    /\ (partants_table # 0 /\ \E i \in DOMAIN all_tables :
                                  is_partants(all_tables[i]))
         => /\ is_partants(all_tables[partants_table])
            /\ \A i \in 1 .. (partants_table - 1) :
                 ~is_partants(all_tables[i])

\* Without the fallback the two tables are distinct.
DistinctWithoutFallback ==
    pcC = "classified" =>
    LET c == ClassifyLoop(all_tables, Len(all_tables))
    IN (c.partants # 0 /\ c.resultats # 0) => c.partants # c.resultats

-----------------------------------------------------------------------------
(* C8.  Non-starter exclusion (SpecScrape).                                *)

\* The data rows of the runners table that carry a starting number.
NumberedRows ==
    { r \in { tableP.rows[i] : i \in DOMAIN tableP.rows } :
        Len(td_texts(r)) >= 6 /\ IsNumero(td_texts(r)[1]) }

\* The driver cell or the horse-name cell of the row carries the marker.
MarkedNonStarter(r) ==
    \/ has_non_part(td_texts(r)[idx_driver(tableP) + 1])
    \/ has_non_part(td_texts(r)[2])

Returned(numero) ==
    \E i \in DOMAIN partants_list : partants_list[i].numero_pmu = numero

\* C8: no runner is returned under the starting number of a runners-table
\* row whose driver cell or horse-name cell carries the non-starter marker,
\* whether or not a results row exists for that number.
C8_NonStarterExcluded ==
    pcS = "returned" =>
    \A r \in NumberedRows :
        MarkedNonStarter(r) => ~Returned(safe_int(td_texts(r)[1]))

\* What the code does exclude: the rows it flags, results row or not.
FlaggedExcluded ==
    pcS = "returned" =>
    \A r \in NumberedRows :
        est_non_partant(td_texts(r)[idx_driver(tableP) + 1],
                        before_double_space(td_texts(r)[2]))
        => ~Returned(safe_int(td_texts(r)[1]))

-----------------------------------------------------------------------------
(* C11.  Distance handicap (SpecScrape).                                   *)

\* The runner lists its distance.
Listed(p) == p.dist_cheval \notin {NoInt, 0}

ListedRunners(runners) == { i \in DOMAIN runners : Listed(runners[i]) }

\* C11: in the race scrape_course returns, every runner with a listed
\* distance has as handicap its listed distance minus the smallest distance
\* listed by a runner of the race, so no handicap is negative and a runner of
\* the race has handicap 0; the race distance the page text did not give is
\* that smallest distance.
C11_DistanceHandicap ==
    (pcS = "returned" /\ Distances(partants_dict) # {}) =>
    /\ \A i \in ListedRunners(partants_list) :
         /\ partants_list[i].recul
              = partants_list[i].dist_cheval - Min(Distances(partants_dict))
         /\ partants_list[i].recul >= 0
    /\ \E i \in ListedRunners(partants_dict) : partants_dict[i].recul = 0
    /\ body_distance = NoInt => distance = Min(Distances(partants_dict))

\* What the code computes: the handicaps and the race distance over the
\* runners of the runners table, before the results table is read.
HandicapOfRunnersTable ==
    (pcS = "parsed" /\ Distances(partants_dict) # {}) =>
    /\ \A i \in ListedRunners(partants_dict) :
         partants_dict[i].recul
           = partants_dict[i].dist_cheval - Min(Distances(partants_dict))
    /\ \E i \in ListedRunners(partants_dict) : partants_dict[i].recul = 0
    /\ body_distance = NoInt => distance = Min(Distances(partants_dict))

-----------------------------------------------------------------------------
(* C12.  Failure isolation and progress of scrape_range (FairRange).       *)

\* The days from the day of date_debut to the day of date_fin.
DaysOfRange == date_str(date_debut) .. date_str(date_fin)

\* A date is over: scrape_date has returned or raised for it.
DateOver == pcR \in {"while", "done"} /\ attempted # <<>>

\* The dates attempted so far are the first days of the range, each once,
\* in increasing order.
AttemptedInOrder ==
    \A k \in DOMAIN attempted : attempted[k].date = date_str(date_debut) + k - 1

\* Every race of the programme of the date was attempted.
AllRacesAttempted == DateOver => Len(outcomes) = nb_courses

\* C12: a failure on a race or on a date never keeps the remaining races of
\* the date and the remaining dates of the range from being attempted; the
\* dates from the first to the last are attempted once each in increasing
\* order, and the run terminates after the last one.
C12_IsolationAndProgress ==
    /\ [](/\ AttemptedInOrder
          /\ AllRacesAttempted
          /\ pcR = "done" => { attempted[k].date : k \in DOMAIN attempted }
                               = DaysOfRange
          /\ pcR = "done" => current > date_fin)
    /\ <>(pcR = "done")

\* The run is over; its first date failed on its first race and went on to
\* a second race, and a later date was attempted.
C12_Witness ==
    /\ pcR = "done"
    /\ Len(attempted) >= 2
    /\ attempted[1].failed
    /\ Len(outcomes) = 2 /\ outcomes[1] = "Erreur" /\ outcomes[2] = "OK BDD"

-----------------------------------------------------------------------------
(* C13.  Request pacing (SpecRange).                                       *)

Pauses == {"sleep2", "sleep5"}

\* C13: every fetch of a race page is followed by a pause before the next
\* page is fetched, however the race went, and every fetch of a programme
\* but the first comes after the pause that ends the date before.
C13_PauseAfterEachFetch ==
    \A k \in 1 .. (Len(events) - 1) :
        /\ events[k] = "course" => events[k + 1] \in Pauses
        /\ events[k + 1] = "programme" => events[k] = "sleep5"

\* What the code does pause after: a date, and a race that did not raise.
PauseUnlessRaised ==
    /\ \A k \in 1 .. (Len(events) - 1) :
         events[k + 1] = "programme" => events[k] = "sleep5"
    /\ (pcR = "races" /\ outcomes # <<>>
        /\ outcomes[Len(outcomes)] \in {"OK BDD", "ERREUR BDD", "Timeout"})
       => /\ Len(events) >= 2
          /\ events[Len(events) - 1] = "course"
          /\ events[Len(events)] = "sleep2"

-----------------------------------------------------------------------------
(* C14.  Store connection scoping (SpecRange).                             *)

\* The races of the date for which save_to_db got its connection.
SavedRaces ==
    { k \in DOMAIN outcomes : outcomes[k] \in {"OK BDD", "ERREUR BDD"} }

\* C14 as the specification words it: one connection is opened for the pass
\* over a date, it carries the transaction of every race of the pass, each
\* committed or rolled back, and it is closed at the end of the pass.
C14_OneConnectionPerPass ==
    /\ Len(conns) <= 1
    /\ \A c \in DOMAIN conns :
         /\ Len(conns[c].txs) = Cardinality(SavedRaces)
         /\ DateOver => conns[c].closed

\* C14 as the code has it: every save_to_db call opens a connection of its
\* own, which carries the one transaction of that race, committed when it
\* succeeds and rolled back when it raises, and is closed before the call
\* returns.
C14_OneConnectionPerRace ==
    /\ Len(conns) = Cardinality(SavedRaces)
    /\ \A c \in DOMAIN conns :
         /\ conns[c].closed
         /\ conns[c].race + 1 \in SavedRaces
         /\ \A d \in DOMAIN conns : conns[d].race = conns[c].race => d = c
         /\ conns[c].txs =
              <<IF outcomes[conns[c].race + 1] = "OK BDD"
                THEN "commit" ELSE "rollback">>

\* A date with two races saved: one committed, one rolled back.
C14_Witness ==
    /\ DateOver
    /\ outcomes = <<"OK BDD", "ERREUR BDD">>
    /\ Len(conns) = 2
    /\ conns[1].txs = <<"commit">> /\ conns[2].txs = <<"rollback">>
    /\ conns[1].closed /\ conns[2].closed

-----------------------------------------------------------------------------
(* C16.  Saved-race count (SpecRange).                                     *)

\* C16: the number scrape_date returns is the number of races of the date
\* whose transaction was committed.
C16_CountsCommitted ==
    (DateOver /\ n_saved # NoInt) =>
    n_saved = Cardinality({ k \in DOMAIN outcomes : outcomes[k] = "OK BDD" })

\* What the code counts: the races save_to_db returned for, committed or
\* rolled back.
CountsSaveCalls ==
    (DateOver /\ n_saved # NoInt) => n_saved = Cardinality(SavedRaces)

-----------------------------------------------------------------------------
(* C15.  Result merger odds rule (SpecScrape).                             *)

\* The runners as the runners table gave them, before the results rows.
BeforeMerge == WithRecul(RunnersTableDict(tableP))

\* The results rows are merged.
Merged == pcS \in {"merged", "returned"}

\* The merge never takes the current odds of a runner away, and the odds it
\* gives to a runner of the runners table exceed 1.0.
OverlayKeepsOdds ==
    Merged =>
    \A i \in DOMAIN BeforeMerge :
        /\ BeforeMerge[i].cote_direct # NoFloat
             => partants_dict[i].cote_direct # NoFloat
        /\ partants_dict[i].cote_direct # BeforeMerge[i].cote_direct
             => ExceedsOne(partants_dict[i].cote_direct)

\* C15: the final odds of a results row become the current odds of a runner
\* only when they exceed 1.0, for the runner the row is overlaid on and for
\* the runner synthesized from the row; and the overlay never takes the
\* current odds of a runner away.
C15_OddsAboveOne ==
    /\ OverlayKeepsOdds
    /\ Merged =>
       \A i \in DOMAIN partants_dict :
           (i \notin DOMAIN BeforeMerge
            /\ partants_dict[i].cote_direct # NoFloat)
           => ExceedsOne(partants_dict[i].cote_direct)

=============================================================================
